---- MODULE Spec2Model ----
(***************************************************************************)
(* Model of maku693/canvas-path-tracer: the vector algebra, the shapes,    *)
(* the nearest-hit query, the recursive path integrator and the            *)
(* progressive accumulators of src/unnamed/part_000 and src/main.js.       *)
(*                                                                         *)
(* Numbers are exact rationals <<n, d>> (d > 0, lowest terms), so the      *)
(* statements are about real arithmetic; Math.sqrt is exact on rational    *)
(* squares and rounds down to a grid of representable values otherwise.    *)
(***************************************************************************)
EXTENDS Integers, Naturals, Sequences, FiniteSets, TLC

(***************************************************************************)
(* Exact rational arithmetic (the JavaScript number operators + - * / <).  *)
(***************************************************************************)
Abs(n) == IF n < 0 THEN -n ELSE n

RECURSIVE GCD(_, _)
GCD(a, b) == IF b = 0 THEN a ELSE GCD(b, a % b)

R(n, d) ==
  LET s == IF d < 0 THEN -1 ELSE 1
      g == GCD(Abs(n), Abs(d))
  IN  <<(s * n) \div g, (s * d) \div g>>

Q(n) == <<n, 1>>

RAdd(a, b) ==
  LET g == GCD(a[2], b[2])
  IN  R(a[1] * (b[2] \div g) + b[1] * (a[2] \div g), (a[2] \div g) * b[2])
RNeg(a) == <<-a[1], a[2]>>
RSub(a, b) == RAdd(a, RNeg(b))
RMul(a, b) ==
  LET g1 == GCD(Abs(a[1]), b[2])
      g2 == GCD(Abs(b[1]), a[2])
  IN  R((a[1] \div g1) * (b[1] \div g2), (a[2] \div g2) * (b[2] \div g1))
RDiv(a, b) == RMul(a, R(b[2], b[1]))
RLt(a, b) == RSub(a, b)[1] < 0
RLe(a, b) == RSub(a, b)[1] <= 0

RECURSIVE isqrtIter(_, _)
isqrtIter(n, x) ==
  LET y == (x + n \div x) \div 2
  IN  IF y >= x THEN x ELSE isqrtIter(n, y)

isqrt(n) == IF n < 2 THEN n ELSE isqrtIter(n, n)

IsSquare(q) == isqrt(q[1]) * isqrt(q[1]) = q[1] /\ isqrt(q[2]) * isqrt(q[2]) = q[2]

\* Math.sqrt: exact where the root is rational, otherwise rounded down to a
\* multiple of 1/8 (the representable numbers of the model)
sqrt(q) ==
  IF IsSquare(q) THEN <<isqrt(q[1]), isqrt(q[2])>>
  ELSE R(isqrt((q[1] * 64) \div q[2]), 8)

(***************************************************************************)
(* class Vec3                                                              *)
(***************************************************************************)
Vec3(x, y, z) == [x |-> x, y |-> y, z |-> z]

V(x, y, z) == Vec3(Q(x), Q(y), Q(z))

zero == Vec3(Q(0), Q(0), Q(0))

add(a, b) == Vec3(RAdd(a.x, b.x), RAdd(a.y, b.y), RAdd(a.z, b.z))

subtract(a, b) == Vec3(RSub(a.x, b.x), RSub(a.y, b.y), RSub(a.z, b.z))

multiply(a, b) == Vec3(RMul(a.x, b.x), RMul(a.y, b.y), RMul(a.z, b.z))

dot(a, b) == RAdd(RAdd(RMul(a.x, b.x), RMul(a.y, b.y)), RMul(a.z, b.z))

scale(a, b) == Vec3(RMul(a.x, b), RMul(a.y, b), RMul(a.z, b))

squaredLength(a) == dot(a, a)

length(a) == sqrt(squaredLength(a))

normalize(a) == scale(a, RDiv(Q(1), length(a)))

(***************************************************************************)
(* JavaScript's undefined, for a variable that was never assigned and for  *)
(* the constructor arguments that `new Intersection(false)` leaves out.    *)
(***************************************************************************)
Undefined == [undefined |-> TRUE]

IsUndefined(v) == "undefined" \in DOMAIN v

(***************************************************************************)
(* State.  geom: the geometry operator last applied and its result.        *)
(* tr_*: one run of tracePathInScene (the current call's ray and depth,    *)
(* the pending callers, the returned value) and its history (tr_rays: the  *)
(* ray of every call made, outermost first; tr_values: the value every     *)
(* call returned, innermost first).                                        *)
(* canvas .. up_writes: the program of part_000 (the Renderer's fields,    *)
(* the queued callbacks, the activation of update()) and its history (sum  *)
(* of the merged frames, number of completed updates; up_radiances: the    *)
(* radiances traced for each pixel of the frame being computed).           *)
(* m_*: the Renderer of the second program of main.js and its history.     *)
(* h_*: the program of part_000 with its Vec3 objects kept in a heap, so   *)
(* that two references to one object can be told from two equal objects.   *)
(* f_*: the first program of main.js (the chain of update(sample, count)   *)
(* animation-frame callbacks) and the log of what it did.                  *)
(***************************************************************************)
VARIABLES geom

VARIABLES tr_pc, tr_objects, tr_ray, tr_depth, tr_stack, tr_result,
          tr_ray0, tr_depth0, tr_depths, tr_queries, tr_samples, tr_hits, tr_leaf,
          tr_rays, tr_values

VARIABLES canvas, camera, sampleCount, data,
          started, loaded, timers, rafQueued, debugText,
          up_pc, up_data, up_x, up_y, up_i,
          sum, updates, sameAs, up_coords, up_writes, up_radiances

VARIABLES m_canvas, m_sampleCount, m_data, m_loaded, m_timers, m_sum, m_frames

VARIABLES h_canvas, h_heap, h_data, h_sampleCount, h_pc, h_frame, h_i,
          h_loaded, h_timers, h_shown

VARIABLES f_canvas, f_loaded, f_raf, f_text, f_shown, f_log

gvars == <<geom>>

tvars == <<tr_pc, tr_objects, tr_ray, tr_depth, tr_stack, tr_result,
           tr_ray0, tr_depth0, tr_depths, tr_queries, tr_samples, tr_hits, tr_leaf,
           tr_rays, tr_values>>

rvars == <<canvas, camera, sampleCount, data,
           started, loaded, timers, rafQueued, debugText,
           up_pc, up_data, up_x, up_y, up_i,
           sum, updates, sameAs, up_coords, up_writes, up_radiances>>

mvars == <<m_canvas, m_sampleCount, m_data, m_loaded, m_timers, m_sum, m_frames>>

hvars == <<h_canvas, h_heap, h_data, h_sampleCount, h_pc, h_frame, h_i,
           h_loaded, h_timers, h_shown>>

fvars == <<f_canvas, f_loaded, f_raf, f_text, f_shown, f_log>>

vars == <<gvars, tvars, rvars, mvars, hvars, fvars>>

\* the parts of the state that a specification does not exercise
GeomOff == geom = [op |-> "off"]

TraceOff ==
  /\ tr_pc = "off" /\ tr_objects = <<>> /\ tr_ray = Undefined /\ tr_depth = 0
  /\ tr_stack = <<>> /\ tr_result = Undefined /\ tr_ray0 = Undefined
  /\ tr_depth0 = 0 /\ tr_depths = <<>> /\ tr_queries = 0 /\ tr_samples = 0
  /\ tr_hits = <<>> /\ tr_leaf = Undefined /\ tr_rays = <<>> /\ tr_values = <<>>

RenderOff ==
  /\ canvas = Undefined /\ camera = Undefined /\ sampleCount = 0 /\ data = <<>>
  /\ started = FALSE /\ loaded = FALSE /\ timers = 0 /\ rafQueued = FALSE
  /\ debugText = Undefined /\ up_pc = "off" /\ up_data = <<>> /\ up_x = Undefined
  /\ up_y = Undefined /\ up_i = 0 /\ sum = <<>> /\ updates = 0 /\ sameAs = Undefined
  /\ up_coords = <<>> /\ up_writes = <<>> /\ up_radiances = <<>>

MainOff ==
  /\ m_canvas = Undefined /\ m_sampleCount = 0 /\ m_data = <<>> /\ m_loaded = FALSE
  /\ m_timers = 0 /\ m_sum = <<>> /\ m_frames = 0

HeapOff ==
  /\ h_canvas = Undefined /\ h_heap = <<>> /\ h_data = <<>> /\ h_sampleCount = 0
  /\ h_pc = "off" /\ h_frame = <<>> /\ h_i = 0 /\ h_loaded = FALSE /\ h_timers = 0
  /\ h_shown = Undefined

FirstOff ==
  /\ f_canvas = Undefined /\ f_loaded = FALSE /\ f_raf = Undefined
  /\ f_text = Undefined /\ f_shown = Undefined /\ f_log = <<>>

(***************************************************************************)
(* class Material, class Intersection, class Ray                           *)
(***************************************************************************)
Material(color, emission) == [color |-> color, emission |-> emission]

Intersection(isHit, distance, normal, material) ==
  [isHit |-> isHit, distance |-> distance, normal |-> normal, material |-> material]

Ray(origin, direction) == [origin |-> origin, direction |-> direction]

(***************************************************************************)
(* class Plane                                                             *)
(***************************************************************************)
Plane(center, normal, material) ==
  [kind |-> "Plane", center |-> center, normal |-> normal, material |-> material]

\* variant of Plane.intersectionWithRay that rejects t < 0 only
Plane_intersectionWithRay_acceptsZero(self, ray) ==
  LET v  == subtract(ray.origin, self.center)
      vn == dot(v, self.normal)
      dn == dot(ray.direction, self.normal)
  IN  IF RLe(Q(0), dn)
        THEN Intersection(FALSE, Undefined, Undefined, Undefined)
        ELSE LET t == RMul(RDiv(vn, dn), Q(-1))
             IN  IF RLt(t, Q(0))
                   THEN Intersection(FALSE, Undefined, Undefined, Undefined)
                   ELSE Intersection(TRUE, t, self.normal, self.material)

Plane_intersectionWithRay(self, ray) ==
  LET v  == subtract(ray.origin, self.center)
      vn == dot(v, self.normal)
      dn == dot(ray.direction, self.normal)
  IN  IF RLe(Q(0), dn)
        THEN Intersection(FALSE, Undefined, Undefined, Undefined)
        ELSE LET t == RMul(RDiv(vn, dn), Q(-1))
             IN  IF RLe(t, Q(0))
                   THEN Intersection(FALSE, Undefined, Undefined, Undefined)
                   ELSE Intersection(TRUE, t, self.normal, self.material)

(***************************************************************************)
(* class Sphere                                                            *)
(***************************************************************************)
Sphere(center, radius, material) ==
  [kind |-> "Sphere", center |-> center, radius |-> radius, material |-> material]

createIntersection(self, ray, t) ==
  LET p      == add(ray.origin, scale(ray.direction, t))
      normal == normalize(subtract(p, self.center))
  IN  Intersection(TRUE, t, normal, self.material)

\* variant of Sphere.intersectionWithRay that tries the root t1 first
Sphere_intersectionWithRay_farRoot(self, ray) ==
  LET v == subtract(ray.origin, self.center)
      b == dot(v, ray.direction)
      c == RSub(squaredLength(v), RMul(self.radius, self.radius))
      d == RSub(RMul(b, b), c)
  IN  IF RLt(d, Q(0))
        THEN Intersection(FALSE, Undefined, Undefined, Undefined)
        ELSE LET sqrtD == sqrt(d)
                 t1    == RAdd(RMul(Q(-1), b), sqrtD)
                 t2    == RSub(RMul(Q(-1), b), sqrtD)
             IN  IF RLt(Q(0), t1) THEN createIntersection(self, ray, t1)
                 ELSE IF RLt(Q(0), t2) THEN createIntersection(self, ray, t2)
                 ELSE Intersection(FALSE, Undefined, Undefined, Undefined)

Sphere_intersectionWithRay(self, ray) ==
  LET v == subtract(ray.origin, self.center)
      b == dot(v, ray.direction)
      c == RSub(squaredLength(v), RMul(self.radius, self.radius))
      d == RSub(RMul(b, b), c)
  IN  IF RLt(d, Q(0))
        THEN Intersection(FALSE, Undefined, Undefined, Undefined)
        ELSE LET sqrtD == sqrt(d)
                 t1    == RAdd(RMul(Q(-1), b), sqrtD)
                 t2    == RSub(RMul(Q(-1), b), sqrtD)
             IN  IF RLt(Q(0), t2) THEN createIntersection(self, ray, t2)
                 ELSE IF RLt(Q(0), t1) THEN createIntersection(self, ray, t1)
                 ELSE Intersection(FALSE, Undefined, Undefined, Undefined)

\* object.intersectionWithRay(ray): dispatch on the class of the shape
intersectionWithRay(object, ray) ==
  IF object.kind = "Plane" THEN Plane_intersectionWithRay(object, ray)
                           ELSE Sphere_intersectionWithRay(object, ray)

(***************************************************************************)
(* class Scene (part_000) / Ray.intersectionWithScene (main.js)            *)
(***************************************************************************)
\* Number.MAX_VALUE (about 1.8e308): a finite number above every distance
\* that the bounded scenes of this model can produce
MAX_VALUE == Q(1000000)

\* variant of the loop of the nearest-hit query that keeps the last hit
RECURSIVE sceneLoop_lastHit(_, _, _, _, _)
sceneLoop_lastHit(objects, ray, k, nearestDistance, nearestIntersection) ==
  IF k > Len(objects) THEN nearestIntersection
  ELSE LET body(i) ==
             IF ~i.isHit
               THEN sceneLoop_lastHit(objects, ray, k + 1, nearestDistance, nearestIntersection)
               ELSE sceneLoop_lastHit(objects, ray, k + 1, i.distance, i)
       IN  body(intersectionWithRay(objects[k], ray))

RECURSIVE sceneLoop(_, _, _, _, _)
sceneLoop(objects, ray, k, nearestDistance, nearestIntersection) ==
  IF k > Len(objects) THEN nearestIntersection
  ELSE LET body(i) ==
             IF ~i.isHit
               THEN sceneLoop(objects, ray, k + 1, nearestDistance, nearestIntersection)
             ELSE IF RLt(i.distance, nearestDistance)
               THEN sceneLoop(objects, ray, k + 1, i.distance, i)
             ELSE sceneLoop(objects, ray, k + 1, nearestDistance, nearestIntersection)
       IN  body(intersectionWithRay(objects[k], ray))

Scene_intersectionWithRay(objects, ray) ==
  sceneLoop(objects, ray, 1, MAX_VALUE, Undefined)

(***************************************************************************)
(* Ray.randomReflectionFromNormal.  rnd stands for the two Math.random()   *)
(* draws: rnd.u1 is the first (cos(theta) = u1, 0 <= u1 < 1) and           *)
(* <<rnd.cosPhi, rnd.sinPhi>> is the point of the unit circle at the angle *)
(* phi = 2 * PI * u2 of the second.                                        *)
(***************************************************************************)
randomDirection(rnd) ==
  LET cosTheta == rnd.u1
      sinTheta == sqrt(RSub(Q(1), RMul(cosTheta, cosTheta)))
  IN  Vec3(RMul(sinTheta, rnd.cosPhi), cosTheta, RMul(sinTheta, rnd.sinPhi))

\* variant of randomReflectionFromNormal that never negates the candidate
randomReflectionFromNormal_neverFlips(normal, rnd) == randomDirection(rnd)

randomReflectionFromNormal(normal, rnd) ==
  IF RLt(dot(normal, randomDirection(rnd)), Q(0))
    THEN scale(randomDirection(rnd), Q(-1))
    ELSE randomDirection(rnd)

\* tracePathInScene: const cosTheta = Vec3.dot(newRay.direction, intersection.normal)
bounceCosTheta(direction, normal) == dot(direction, normal)

\* variant of the diffuse weight without the factor 2
bounceDiffuse_cosOnly(material, cosTheta) == scale(material.color, cosTheta)

\* tracePathInScene: const diffuse = Vec3.scale(intersection.material.color, cosTheta * 2)
bounceDiffuse(material, cosTheta) == scale(material.color, RMul(cosTheta, Q(2)))

(***************************************************************************)
(* The materials and the scene that part_000 and the second program of     *)
(* main.js build at start-up.                                              *)
(***************************************************************************)
lightMaterial == Material(V(0, 0, 0), V(10, 10, 10))

whiteMaterial == Material(V(1, 1, 1), V(0, 0, 0))

blueMaterial == Material(V(0, 0, 1), V(0, 0, 0))

yellowMaterial == Material(V(1, 1, 0), V(0, 0, 0))

leftPlane == Plane(V(2, 0, 0), V(-1, 0, 0), blueMaterial)

rightPlane == Plane(V(-2, 0, 0), V(1, 0, 0), yellowMaterial)

topPlane == Plane(V(0, 4, 0), V(0, -1, 0), whiteMaterial)

bottomPlane == Plane(V(0, 0, 0), V(0, 1, 0), whiteMaterial)

backPlane == Plane(V(0, 0, 2), V(0, 0, -1), whiteMaterial)

frontPlane == Plane(V(0, 0, -2), V(0, 0, 1), whiteMaterial)

lightSphere == Sphere(Vec3(Q(0), R(795, 100), Q(0)), Q(4), lightMaterial)

whiteSphere == Sphere(V(0, 1, 0), Q(1), whiteMaterial)

scene ==
  <<leftPlane, rightPlane, topPlane, bottomPlane, backPlane, frontPlane,
    lightSphere, whiteSphere>>

(***************************************************************************)
(* class Camera (part_000)                                                 *)
(***************************************************************************)
Camera(position, direction, focalLength, filmDPM, filmSpeed, multiSample) ==
  [position |-> position, direction |-> direction, focalLength |-> focalLength,
   filmDPM |-> filmDPM, filmSpeed |-> filmSpeed, multiSample |-> multiSample]

\* for (let o = offsetMin; o < offsetMax; o++): the values o takes
RECURSIVE offsetsFrom(_, _)
offsetsFrom(o, offsetMax) ==
  IF RLt(o, offsetMax) THEN <<o>> \o offsetsFrom(RAdd(o, Q(1)), offsetMax) ELSE <<>>

\* raysForCoordinate: the image-plane points `splitted` of the rays of (x, y),
\* in the order in which the two loops push the rays
splittedForCoordinate(self, x, y) ==
  LET cell2center == Vec3(RDiv(x, self.filmDPM), RDiv(y, self.filmDPM), self.focalLength)
      offsetMin   == RDiv(Q(self.multiSample), Q(-2))
      offsetMax   == RDiv(Q(self.multiSample), Q(2))
      os          == offsetsFrom(offsetMin, offsetMax)
      n           == Len(os)
  IN  [j \in 1..(n * n) |->
         LET ox     == os[((j - 1) \div n) + 1]
             oy     == os[((j - 1) % n) + 1]
             offset == scale(Vec3(ox, oy, Q(0)), RDiv(Q(1), self.filmDPM))
         IN  add(cell2center, offset)]

\* const camera = new Camera(...), with the multisample count as a parameter
cameraWith(multiSample) ==
  Camera(V(0, 2, -5), V(1, 1, 1), R(28, 1000), Q(10000), R(3, 2), multiSample)

\* raysForCoordinate: one ray per pushed element.  `splitted` is the point of
\* the image plane the ray passes through and `along` is
\* Vec3.multiply(this.direction, splitted), the vector whose normalize() is the
\* ray's direction (a positive multiple of it)
raysForCoordinate(self, x, y) ==
  LET wrap(targets) ==
        [j \in 1..Len(targets) |->
           [origin |-> self.position, splitted |-> targets[j],
            along |-> multiply(self.direction, targets[j])]]
  IN  wrap(splittedForCoordinate(self, x, y))

(***************************************************************************)
(* Bounded inputs of the geometry operators.                               *)
(***************************************************************************)
\* directions of length exactly 1
UnitDirections ==
  { V(1, 0, 0), V(-1, 0, 0), V(0, 1, 0), V(0, -1, 0), V(0, 0, 1), V(0, 0, -1),
    Vec3(R(3, 5), R(4, 5), Q(0)), Vec3(Q(0), R(-4, 5), R(3, 5)),
    Vec3(R(-3, 5), Q(0), R(-4, 5)), Vec3(R(4, 5), R(-3, 5), Q(0)) }

GeomOrigins ==
  { V(x, y, z) : x \in {0, 1}, y \in {-1, 0, 1, 2, 5}, z \in {-5, 0, 1} }

GeomRays == { Ray(o, d) : o \in GeomOrigins, d \in UnitDirections }

unitSphere == Sphere(V(0, 0, 0), Q(1), whiteMaterial)

GeomPlanes == {leftPlane, rightPlane, topPlane, bottomPlane, backPlane, frontPlane}

GeomSpheres == {lightSphere, whiteSphere, unitSphere}

GeomShapes == {bottomPlane, topPlane, backPlane, whiteSphere, unitSphere}

MaxObjects == 2

GeomScenes ==
  UNION { [1..n -> GeomShapes] : n \in 0..MaxObjects } \cup {scene}

\* Math.random() pairs: u1 in [0, 1) and the direction of the angle phi
RandomDraws ==
  { [u1 |-> u, cosPhi |-> c[1], sinPhi |-> c[2]] :
      u \in {Q(0), R(3, 5), R(4, 5)},
      c \in { <<Q(1), Q(0)>>, <<Q(0), Q(1)>>, <<Q(-1), Q(0)>>, <<Q(0), Q(-1)>>,
              <<R(3, 5), R(4, 5)>>, <<R(-4, 5), R(-3, 5)>> } }

GeomNormals == UnitDirections

GeomMaterials == {lightMaterial, whiteMaterial, blueMaterial, yellowMaterial}

\* multisample counts of the camera: 2 is the program's
CameraCounts == {1, 2}

\* pixel coordinates: update() steps x and y by 1 from width / -2 and
\* height / 2, so they are all integers or all half-integers
RayCoordinates ==
  { <<Q(x), Q(y)>> : x \in {-1, 0, 1}, y \in {-1, 0, 1} } \cup
  { <<R(x, 2), R(y, 2)>> : x \in {-3, -1, 1}, y \in {-1, 1, 3} }

\* the geometry operators are applied one at a time to inputs drawn here
GeomInit ==
  geom = [op |-> "idle"] /\ TraceOff /\ RenderOff /\ MainOff /\ HeapOff /\ FirstOff

DoPlane ==
  /\ geom.op = "idle"
  /\ \E self \in GeomPlanes, ray \in GeomRays :
       geom' = [op |-> "plane", self |-> self, ray |-> ray,
                out |-> Plane_intersectionWithRay(self, ray)]
  /\ UNCHANGED <<tvars, rvars, mvars, hvars, fvars>>

DoSphere ==
  /\ geom.op = "idle"
  /\ \E self \in GeomSpheres, ray \in GeomRays :
       geom' = [op |-> "sphere", self |-> self, ray |-> ray,
                out |-> Sphere_intersectionWithRay(self, ray)]
  /\ UNCHANGED <<tvars, rvars, mvars, hvars, fvars>>

DoScene ==
  /\ geom.op = "idle"
  /\ \E objects \in GeomScenes, ray \in GeomRays :
       geom' = [op |-> "scene", objects |-> objects, ray |-> ray,
                out |-> Scene_intersectionWithRay(objects, ray)]
  /\ UNCHANGED <<tvars, rvars, mvars, hvars, fvars>>

DoReflection ==
  /\ geom.op = "idle"
  /\ \E normal \in GeomNormals, rnd \in RandomDraws, material \in GeomMaterials :
       LET direction == randomReflectionFromNormal(normal, rnd)
           cosTheta  == bounceCosTheta(direction, normal)
       IN  geom' = [op |-> "reflection", normal |-> normal, rnd |-> rnd,
                    material |-> material, out |-> direction,
                    cosTheta |-> cosTheta,
                    diffuse |-> bounceDiffuse(material, cosTheta)]
  /\ UNCHANGED <<tvars, rvars, mvars, hvars, fvars>>

\* the rays of a pixel (x, y) and, for comparison, of a pixel (x2, y2) of the
\* same image
DoRays ==
  /\ geom.op = "idle"
  /\ \E k \in CameraCounts, c \in RayCoordinates, c2 \in RayCoordinates :
       /\ (c[1][2] = c2[1][2] /\ c[2][2] = c2[2][2])
       /\ geom' = [op |-> "rays", self |-> cameraWith(k),
                   x |-> c[1], y |-> c[2], out |-> raysForCoordinate(cameraWith(k), c[1], c[2]),
                   x2 |-> c2[1], y2 |-> c2[2],
                   out2 |-> raysForCoordinate(cameraWith(k), c2[1], c2[2])]
  /\ UNCHANGED <<tvars, rvars, mvars, hvars, fvars>>

GeomReset ==
  /\ geom.op # "idle"
  /\ geom' = [op |-> "idle"]
  /\ UNCHANGED <<tvars, rvars, mvars, hvars, fvars>>

NextGeom == DoPlane \/ DoSphere \/ DoScene \/ DoReflection \/ DoRays \/ GeomReset

SpecGeom == GeomInit /\ [][NextGeom]_vars

(***************************************************************************)
(* Ray.tracePathInScene, one activation at a time.  traceCall is the body  *)
(* of one call up to its recursive call: the depth test, the nearest-hit   *)
(* query, the bounce ray and its weight; traceReturn is what the call      *)
(* returns once the nested call has returned `reflection`.                 *)
(***************************************************************************)
\* tracePathInScene after a hit: the bounce ray, its weight and the emission
traceBounce(ray, depth, rnd, intersection) ==
  LET weigh(newRay) ==
        LET shade(cosTheta) ==
              [kind |-> "bounce", depth |-> depth, ray |-> ray, queried |-> TRUE,
               intersection |-> intersection, newRay |-> newRay,
               cosTheta |-> cosTheta,
               diffuse |-> bounceDiffuse(intersection.material, cosTheta),
               emission |-> intersection.material.emission,
               nextDepth |-> depth + 1]
        IN  shade(bounceCosTheta(newRay.direction, intersection.normal))
  IN  weigh(Ray(add(ray.origin, scale(ray.direction, intersection.distance)),
                randomReflectionFromNormal(intersection.normal, rnd)))

\* variant of tracePathInScene that returns a background color on a miss
traceCall_background(objects, ray, depth, rnd) ==
  IF depth = 5
    THEN [kind |-> "cap", depth |-> depth, ray |-> ray, queried |-> FALSE,
          value |-> Vec3(Q(0), Q(0), Q(0))]
    ELSE LET afterQuery(intersection) ==
               IF IsUndefined(intersection)
                 THEN [kind |-> "miss", depth |-> depth, ray |-> ray, queried |-> TRUE,
                       value |-> Vec3(Q(1), Q(1), Q(1))]
                 ELSE traceBounce(ray, depth, rnd, intersection)
         IN  afterQuery(Scene_intersectionWithRay(objects, ray))

\* variant of tracePathInScene whose bounce cap is tested as depth > 5
traceCall_capAboveFive(objects, ray, depth, rnd) ==
  IF depth > 5
    THEN [kind |-> "cap", depth |-> depth, ray |-> ray, queried |-> FALSE,
          value |-> Vec3(Q(0), Q(0), Q(0))]
    ELSE LET afterQuery(intersection) ==
               IF IsUndefined(intersection)
                 THEN [kind |-> "miss", depth |-> depth, ray |-> ray, queried |-> TRUE,
                       value |-> Vec3(Q(0), Q(0), Q(0))]
                 ELSE traceBounce(ray, depth, rnd, intersection)
         IN  afterQuery(Scene_intersectionWithRay(objects, ray))

traceCall(objects, ray, depth, rnd) ==
  IF depth = 5
    THEN [kind |-> "cap", depth |-> depth, ray |-> ray, queried |-> FALSE,
          value |-> Vec3(Q(0), Q(0), Q(0))]
    ELSE LET afterQuery(intersection) ==
               IF IsUndefined(intersection)
                 THEN [kind |-> "miss", depth |-> depth, ray |-> ray, queried |-> TRUE,
                       value |-> Vec3(Q(0), Q(0), Q(0))]
                 ELSE traceBounce(ray, depth, rnd, intersection)
         IN  afterQuery(Scene_intersectionWithRay(objects, ray))

traceReturn(frame, reflection) ==
  add(frame.emission, multiply(frame.diffuse, reflection))

(***************************************************************************)
(* Bounded inputs of the path integrator.                                  *)
(***************************************************************************)
boxScene == <<leftPlane, rightPlane, topPlane, bottomPlane, backPlane, frontPlane>>

lightPlane == Plane(V(0, 4, 0), V(0, -1, 0), lightMaterial)

litBoxScene == <<leftPlane, rightPlane, lightPlane, bottomPlane, backPlane, frontPlane>>

TraceScenes ==
  {<<>>, boxScene, litBoxScene, litBoxScene \o <<whiteSphere>>, <<bottomPlane, whiteSphere>>}

TraceRays ==
  { Ray(V(0, 2, -5), V(0, 0, 1)), Ray(V(0, 1, -5), V(0, 0, 1)),
    Ray(V(0, 2, 0), V(0, 1, 0)), Ray(V(0, 2, 0), Vec3(R(3, 5), R(4, 5), Q(0))),
    Ray(V(0, 2, -5), V(0, 0, -1)) }

\* tracePathInScene(scene) passes no depth (default 0); other depth arguments
\* are tried as well
TraceStartDepths == {0, 3, 5, 6}

\* a call with a depth above 5 never meets depth === 5: the model follows such
\* a recursion up to this depth only
MaxTraceDepth == 7

TraceDraws ==
  { [u1 |-> Q(0), cosPhi |-> Q(1), sinPhi |-> Q(0)],
    [u1 |-> R(4, 5), cosPhi |-> Q(0), sinPhi |-> Q(1)],
    [u1 |-> R(3, 5), cosPhi |-> Q(-1), sinPhi |-> Q(0)],
    [u1 |-> Q(0), cosPhi |-> Q(0), sinPhi |-> Q(-1)] }

AnyDraw == CHOOSE rnd \in TraceDraws : TRUE

\* no trace is running
TraceInit ==
  /\ tr_pc = "idle"
  /\ tr_objects = <<>>
  /\ tr_ray = Undefined
  /\ tr_depth = 0
  /\ tr_stack = <<>>
  /\ tr_result = Undefined
  /\ tr_ray0 = Undefined
  /\ tr_depth0 = 0
  /\ tr_depths = <<>>
  /\ tr_queries = 0
  /\ tr_samples = 0
  /\ tr_hits = <<>>
  /\ tr_leaf = Undefined
  /\ tr_rays = <<>>
  /\ tr_values = <<>>
  /\ GeomOff /\ RenderOff /\ MainOff /\ HeapOff /\ FirstOff

\* ray.tracePathInScene(objects, depth) is called from outside
TraceStart ==
  /\ tr_pc = "idle"
  /\ tr_pc' = "call"
  /\ \E objects \in TraceScenes, ray \in TraceRays, depth \in TraceStartDepths :
       /\ tr_objects' = objects
       /\ tr_ray' = ray
       /\ tr_ray0' = ray
       /\ tr_depth' = depth
       /\ tr_depth0' = depth
       /\ tr_depths' = <<depth>>
       /\ tr_rays' = <<ray>>
  /\ UNCHANGED <<tr_stack, tr_result, tr_queries, tr_samples, tr_hits, tr_leaf,
                 tr_values>>
  /\ UNCHANGED <<gvars, rvars, mvars, hvars, fvars>>

\* the call returns at `if (depth === 5)`
TraceCap ==
  /\ tr_pc = "call"
  /\ \E c \in {traceCall(tr_objects, tr_ray, tr_depth, AnyDraw)} :
       /\ c.kind = "cap"
       /\ tr_result' = c.value
       /\ tr_values' = Append(tr_values, c.value)
       /\ tr_leaf' = c
  /\ tr_pc' = "return"
  /\ UNCHANGED <<tr_objects, tr_ray, tr_depth, tr_stack, tr_ray0, tr_depth0,
                 tr_depths, tr_queries, tr_samples, tr_hits, tr_rays>>
  /\ UNCHANGED <<gvars, rvars, mvars, hvars, fvars>>

\* the call returns at `if (!intersection)`
TraceMiss ==
  /\ tr_pc = "call"
  /\ \E c \in {traceCall(tr_objects, tr_ray, tr_depth, AnyDraw)} :
       /\ c.kind = "miss"
       /\ tr_result' = c.value
       /\ tr_values' = Append(tr_values, c.value)
       /\ tr_leaf' = c
  /\ tr_pc' = "return"
  /\ tr_queries' = tr_queries + 1
  /\ UNCHANGED <<tr_objects, tr_ray, tr_depth, tr_stack, tr_ray0, tr_depth0,
                 tr_depths, tr_samples, tr_hits, tr_rays>>
  /\ UNCHANGED <<gvars, rvars, mvars, hvars, fvars>>

\* the call hits a shape, samples a direction and calls itself on the bounce ray
TraceBounce ==
  /\ tr_pc = "call"
  /\ tr_depth < MaxTraceDepth
  /\ \E rnd \in TraceDraws :
       \E c \in {traceCall(tr_objects, tr_ray, tr_depth, rnd)} :
         /\ c.kind = "bounce"
         /\ tr_stack' = Append(tr_stack, [emission |-> c.emission, diffuse |-> c.diffuse])
         /\ tr_ray' = c.newRay
         /\ tr_depth' = c.nextDepth
         /\ tr_depths' = Append(tr_depths, c.nextDepth)
         /\ tr_hits' = Append(tr_hits, c.intersection)
         /\ tr_rays' = Append(tr_rays, c.newRay)
  /\ tr_queries' = tr_queries + 1
  /\ tr_samples' = tr_samples + 1
  /\ UNCHANGED <<tr_pc, tr_objects, tr_result, tr_ray0, tr_depth0, tr_leaf, tr_values>>
  /\ UNCHANGED <<gvars, rvars, mvars, hvars, fvars>>

\* a nested call has returned tr_result to the call that made it
TraceReturn ==
  /\ tr_pc = "return"
  /\ tr_stack # <<>>
  /\ tr_result' = traceReturn(tr_stack[Len(tr_stack)], tr_result)
  /\ tr_values' = Append(tr_values, tr_result')
  /\ tr_stack' = SubSeq(tr_stack, 1, Len(tr_stack) - 1)
  /\ UNCHANGED <<tr_pc, tr_objects, tr_ray, tr_depth, tr_ray0, tr_depth0,
                 tr_depths, tr_queries, tr_samples, tr_hits, tr_leaf, tr_rays>>
  /\ UNCHANGED <<gvars, rvars, mvars, hvars, fvars>>

\* the outermost call returns to its caller
TraceDone ==
  /\ tr_pc = "return"
  /\ tr_stack = <<>>
  /\ tr_pc' = "done"
  /\ UNCHANGED <<tr_objects, tr_ray, tr_depth, tr_stack, tr_result, tr_ray0,
                 tr_depth0, tr_depths, tr_queries, tr_samples, tr_hits, tr_leaf,
                 tr_rays, tr_values>>
  /\ UNCHANGED <<gvars, rvars, mvars, hvars, fvars>>

NextTrace == TraceStart \/ TraceCap \/ TraceMiss \/ TraceBounce \/ TraceReturn \/ TraceDone

SpecTrace == TraceInit /\ [][NextTrace]_vars

(***************************************************************************)
(* class Renderer (part_000): the pieces of update()                       *)
(***************************************************************************)
minY(cv) == RDiv(Q(cv.height), Q(-2))

maxY(cv) == RDiv(Q(cv.height), Q(2))

minX(cv) == RDiv(Q(cv.width), Q(-2))

maxX(cv) == RDiv(Q(cv.width), Q(2))

\* variant of the row loop condition that includes y = minY
rowLoopTest_inclusive(cv, y) == RLe(minY(cv), y)

\* the conditions of the two for loops
rowLoopTest(cv, y) == RLt(minY(cv), y)

columnLoopTest(cv, x) == RLt(x, maxX(cv))

\* variant of the reduce callback that takes the index as the sample count
reduceStep_indexAsCount(prev, next, i) ==
  LET sampleCnt  == i
      nextWeight == RDiv(Q(1), Q(sampleCnt))
  IN  add(scale(next, nextWeight), scale(prev, RSub(Q(1), nextWeight)))

\* the reduce callback
reduceStep(prev, next, i) ==
  LET sampleCnt  == i + 1
      nextWeight == RDiv(Q(1), Q(sampleCnt))
  IN  add(scale(next, nextWeight), scale(prev, RSub(Q(1), nextWeight)))

\* colors.reduce(callback) without an initial value: the accumulator starts
\* as the first element and the callback runs for the indexes 1 .. length - 1
\* (acc[j] is the accumulator after the element of index j - 1)
reduce(colors) ==
  LET acc[j \in 1..Len(colors)] ==
        IF j = 1 THEN colors[1] ELSE reduceStep(acc[j - 1], colors[j], j - 1)
  IN  acc[Len(colors)]

\* the color of one pixel from the radiances that tracePathInScene returned
\* for its rays
pixelColor(self, radiances) ==
  reduce([j \in 1..Len(radiances) |-> scale(radiances[j], self.filmSpeed)])

\* variant of the merge with the two weights exchanged
mergePixel_swappedWeights(old, new, count) ==
  LET newSampleWeight == RDiv(Q(1), Q(count))
  IN  add(scale(old, newSampleWeight), scale(new, RSub(Q(1), newSampleWeight)))

\* the body of the merge loop
mergePixel(old, new, count) ==
  LET newSampleWeight == RDiv(Q(1), Q(count))
  IN  add(scale(new, newSampleWeight), scale(old, RSub(Q(1), newSampleWeight)))

\* variant of the merge loop condition that stops one slot early
mergeLoopTest_skipsLast(buffer, i) == i < Len(buffer) - 1

\* the condition of the merge loop
mergeLoopTest(buffer, i) == i < Len(buffer)

(***************************************************************************)
(* Bounded inputs of the renderers.                                        *)
(***************************************************************************)
\* radiances that tracePathInScene returns: black (a miss or the bounce cap)
\* and the emission of the light
Radiances == {V(0, 0, 0), V(10, 10, 10)}

\* <<canvas.width, canvas.height, camera.multiSample>>
RenderConfigs == {<<1, 1, 2>>, <<2, 1, 1>>, <<3, 1, 1>>, <<1, 3, 1>>, <<2, 2, 1>>}

\* the DOMContentLoaded handler queues 2000 timers; the model queues this many
NumTimers == 3

Pixels == canvas.width * canvas.height

\* new Renderer(canvas, scene, camera) has run; the script has not yet
\* called draw() and DOMContentLoaded has not fired
RenderInit ==
  /\ \E cfg \in RenderConfigs :
       /\ canvas = [width |-> cfg[1], height |-> cfg[2]]
       /\ camera = cameraWith(cfg[3])
  /\ sampleCount = 0
  /\ data = [i \in 1..Pixels |-> zero]
  /\ started = FALSE
  /\ loaded = FALSE
  /\ timers = 0
  /\ rafQueued = FALSE
  /\ debugText = Undefined
  /\ up_pc = "idle"
  /\ up_data = <<>>
  /\ up_x = Undefined
  /\ up_y = Undefined
  /\ up_i = 0
  /\ sum = [i \in 1..Pixels |-> zero]
  /\ updates = 0
  /\ sameAs = Undefined
  /\ up_coords = <<>>
  /\ up_radiances = <<>>
  /\ up_writes = [i \in 1..Pixels |-> 0]
  /\ GeomOff /\ TraceOff /\ MainOff /\ HeapOff /\ FirstOff

\* renderer.draw() and the rest of the draw callback; the gamma-encoded
\* bytes are not kept, only the text that is shown
drawBody ==
  /\ debugText' = [count |-> sampleCount, pixelsRead |-> Pixels,
                   allDefined |-> Pixels <= Len(data)]
  /\ rafQueued' = TRUE

\* the call draw() at the end of the script
FirstDraw ==
  /\ ~started
  /\ started' = TRUE
  /\ drawBody
  /\ UNCHANGED <<canvas, camera, sampleCount, data, loaded, timers,
                 up_pc, up_data, up_x, up_y, up_i,
                 sum, updates, sameAs, up_coords, up_radiances, up_writes>>
  /\ UNCHANGED <<gvars, tvars, mvars, hvars, fvars>>

\* the DOMContentLoaded handler
DOMContentLoaded ==
  /\ started
  /\ ~loaded
  /\ up_pc = "idle"
  /\ loaded' = TRUE
  /\ timers' = NumTimers
  /\ UNCHANGED <<canvas, camera, sampleCount, data, started, rafQueued, debugText,
                 up_pc, up_data, up_x, up_y, up_i,
                 sum, updates, sameAs, up_coords, up_radiances, up_writes>>
  /\ UNCHANGED <<gvars, tvars, mvars, hvars, fvars>>

\* an animation-frame callback runs draw; no other callback is running
Draw ==
  /\ rafQueued
  /\ up_pc = "idle"
  /\ drawBody
  /\ UNCHANGED <<canvas, camera, sampleCount, data, started, loaded, timers,
                 up_pc, up_data, up_x, up_y, up_i,
                 sum, updates, sameAs, up_coords, up_radiances, up_writes>>
  /\ UNCHANGED <<gvars, tvars, mvars, hvars, fvars>>

\* a timer callback starts renderer.update(): const data = [] and the loop
\* variables are initialised
UpdateBegin ==
  /\ timers > 0
  /\ up_pc = "idle"
  /\ timers' = timers - 1
  /\ up_data' = <<>>
  /\ up_coords' = <<>>
  /\ up_radiances' = <<>>
  /\ up_writes' = [i \in 1..Pixels |-> 0]
  /\ up_y' = maxY(canvas)
  /\ up_x' = minX(canvas)
  /\ up_i' = 0
  /\ up_pc' = IF rowLoopTest(canvas, maxY(canvas)) /\ columnLoopTest(canvas, minX(canvas))
                THEN "sample" ELSE "count"
  /\ UNCHANGED <<canvas, camera, sampleCount, data, started, loaded, rafQueued,
                 debugText, sum, updates, sameAs>>
  /\ UNCHANGED <<gvars, tvars, mvars, hvars, fvars>>

\* one pass of the inner loop body: the rays of (x, y) are traced, their
\* colors reduced and pushed; then x++ and, at the end of a row, y--
SamplePixel ==
  /\ up_pc = "sample"
  /\ LET targets == splittedForCoordinate(camera, up_x, up_y)
     IN  \E radiances \in [1..Len(targets) -> Radiances] :
           /\ up_data' = Append(up_data, pixelColor(camera, radiances))
           /\ up_radiances' = Append(up_radiances, radiances)
  /\ up_coords' = Append(up_coords, <<up_x, up_y>>)
  /\ LET x1 == RAdd(up_x, Q(1))
         y1 == RSub(up_y, Q(1))
     IN  IF columnLoopTest(canvas, x1)
           THEN up_x' = x1 /\ up_y' = up_y /\ up_pc' = "sample"
           ELSE /\ up_x' = minX(canvas)
                /\ up_y' = y1
                /\ up_pc' = IF rowLoopTest(canvas, y1) THEN "sample" ELSE "count"
  /\ UNCHANGED <<canvas, camera, sampleCount, data, started, loaded, timers,
                 rafQueued, debugText, up_i, sum, updates, sameAs, up_writes>>
  /\ UNCHANGED <<gvars, tvars, mvars, hvars, fvars>>

\* this.sampleCount += 1 and the merge loop starts at i = 0
CountSample ==
  /\ up_pc = "count"
  /\ sampleCount' = sampleCount + 1
  /\ up_i' = 0
  /\ up_pc' = "merge"
  /\ UNCHANGED <<canvas, camera, data, started, loaded, timers, rafQueued, debugText,
                 up_data, up_x, up_y, sum, updates, sameAs, up_coords, up_radiances, up_writes>>
  /\ UNCHANGED <<gvars, tvars, mvars, hvars, fvars>>

\* one pass of the merge loop; reading a slot that the frame does not hold
\* gives undefined, on which Vec3.scale throws
MergePixel ==
  /\ up_pc = "merge"
  /\ mergeLoopTest(data, up_i)
  /\ IF up_i + 1 \in DOMAIN up_data
       THEN /\ data' = [data EXCEPT ![up_i + 1] =
                          mergePixel(data[up_i + 1], up_data[up_i + 1], sampleCount)]
            /\ up_writes' = [up_writes EXCEPT ![up_i + 1] = @ + 1]
            /\ up_i' = up_i + 1
            /\ up_pc' = "merge"
       ELSE /\ up_pc' = "threw"
            /\ UNCHANGED <<data, up_writes, up_i>>
  /\ UNCHANGED <<canvas, camera, sampleCount, started, loaded, timers, rafQueued,
                 debugText, up_data, up_x, up_y, sum, updates, sameAs, up_coords, up_radiances>>
  /\ UNCHANGED <<gvars, tvars, mvars, hvars, fvars>>

\* the merge loop ends and update() returns; its locals are gone
UpdateReturn ==
  /\ up_pc = "merge"
  /\ ~mergeLoopTest(data, up_i)
  /\ up_pc' = "idle"
  /\ updates' = updates + 1
  /\ sum' = [i \in 1..Pixels |-> IF i \in DOMAIN up_data THEN add(sum[i], up_data[i]) ELSE sum[i]]
  /\ sameAs' = IF updates = 0 THEN [frame |-> up_data]
               ELSE IF sameAs = [frame |-> up_data] THEN sameAs
               ELSE [differ |-> TRUE]
  /\ up_data' = <<>>
  /\ up_coords' = <<>>
  /\ up_radiances' = <<>>
  /\ up_writes' = [i \in 1..Pixels |-> 0]
  /\ up_x' = Undefined
  /\ up_y' = Undefined
  /\ up_i' = 0
  /\ UNCHANGED <<canvas, camera, sampleCount, data, started, loaded, timers, rafQueued,
                 debugText>>
  /\ UNCHANGED <<gvars, tvars, mvars, hvars, fvars>>

NextRender ==
  \/ FirstDraw \/ DOMContentLoaded \/ Draw
  \/ UpdateBegin \/ SamplePixel \/ CountSample \/ MergePixel \/ UpdateReturn

SpecRender == RenderInit /\ [][NextRender]_vars

(***************************************************************************)
(* class Renderer of the second program of src/main.js                     *)
(***************************************************************************)
\* the frames sample() can return: one traced color per pixel, the rows from
\* y = 0 and the columns from x = 0
main_sample(cv) == [1..(cv.width * cv.height) -> Radiances]

\* the body of the loop of update()
main_mergePixel(old, new, count) ==
  add(scale(old, RSub(Q(1), RDiv(Q(1), Q(count)))), scale(new, RDiv(Q(1), Q(count))))

\* update(): NEW_SAMPLE is merged into this.data for i < width * height
main_update(cv, buffer, NEW_SAMPLE, count) ==
  [i \in 1..Len(buffer) |->
     IF i <= cv.width * cv.height
       THEN main_mergePixel(buffer[i], NEW_SAMPLE[i], count)
       ELSE buffer[i]]

MainCanvases == {[width |-> 1, height |-> 1], [width |-> 2, height |-> 1]}

\* the DOMContentLoaded handler queues 1000 timers; the model queues this many
MainTimers == 3

\* the constructor has run: sampleCount = 1 and data = this.sample()
MainInit ==
  /\ m_canvas \in MainCanvases
  /\ m_sampleCount = 1
  /\ m_data \in main_sample(m_canvas)
  /\ m_loaded = FALSE
  /\ m_timers = 0
  /\ m_sum = m_data
  /\ m_frames = 1
  /\ GeomOff /\ TraceOff /\ RenderOff /\ HeapOff /\ FirstOff

\* the DOMContentLoaded handler
MainLoaded ==
  /\ ~m_loaded
  /\ m_loaded' = TRUE
  /\ m_timers' = MainTimers
  /\ UNCHANGED <<m_canvas, m_sampleCount, m_data, m_sum, m_frames>>
  /\ UNCHANGED <<gvars, tvars, rvars, hvars, fvars>>

\* a timer callback runs RENDERER.update()
MainUpdate ==
  /\ m_timers > 0
  /\ m_timers' = m_timers - 1
  /\ \E NEW_SAMPLE \in main_sample(m_canvas) :
       /\ m_data' = main_update(m_canvas, m_data, NEW_SAMPLE, m_sampleCount)
       /\ m_sum' = [i \in 1..Len(m_sum) |-> add(m_sum[i], NEW_SAMPLE[i])]
  /\ m_sampleCount' = m_sampleCount + 1
  /\ m_frames' = m_frames + 1
  /\ UNCHANGED <<m_canvas, m_loaded>>
  /\ UNCHANGED <<gvars, tvars, rvars, hvars, fvars>>

NextMain == MainLoaded \/ MainUpdate

SpecMain == MainInit /\ [][NextMain]_vars

(***************************************************************************)
(* The classes of part_000 with object identity.  A heap is a sequence of  *)
(* Vec3 values, an object is its index (a reference) and `new Vec3`        *)
(* appends.  An operation gives [heap |-> the heap after it, ref |-> the   *)
(* object it returns] (or out |-> for a result that is no Vec3).  Shapes,  *)
(* materials, rays and the camera hold references in their Vec3 fields.    *)
(***************************************************************************)
\* JavaScript evaluates an expression once, before the statements that use
\* its value: rest is applied to the value of first
Sequenced(first, rest(_)) == CHOOSE r \in { rest(v) : v \in {first} } : TRUE

\* new Vec3(x, y, z)
Vec3_new(h, v) == [heap |-> Append(h, v), ref |-> Len(h) + 1]

Vec3_add(h, a, b) == Vec3_new(h, add(h[a], h[b]))

Vec3_subtract(h, a, b) == Vec3_new(h, subtract(h[a], h[b]))

Vec3_multiply(h, a, b) == Vec3_new(h, multiply(h[a], h[b]))

Vec3_dot(h, a, b) == dot(h[a], h[b])

\* variant of Vec3.scale that scales its operand in place and returns it
Vec3_scale_inPlace(h, a, b) == [heap |-> [h EXCEPT ![a] = scale(h[a], b)], ref |-> a]

Vec3_scale(h, a, b) == Vec3_new(h, scale(h[a], b))

\* Vec3.pow(a, b): a new object; its components Math.pow(a.x, b), ... are
\* kept as the terms they are
Vec3_pow(h, a, b) == Vec3_new(h, [pow |-> h[a], exponent |-> b])

\* normalize(): Vec3.scale(this, 1 / this.length())
Vec3_normalize(h, a) == Vec3_scale(h, a, RDiv(Q(1), length(h[a])))

\* Plane.intersectionWithRay on references: the Intersection holds the
\* plane's own normal and material objects
Plane_intersectionWithRay_onHeap(h, self, ray) ==
  LET test(v) ==
        LET decide(vn, dn) ==
              IF RLe(Q(0), dn)
                THEN Intersection(FALSE, Undefined, Undefined, Undefined)
                ELSE LET hit(t) ==
                           IF RLe(t, Q(0))
                             THEN Intersection(FALSE, Undefined, Undefined, Undefined)
                             ELSE Intersection(TRUE, t, self.normal, self.material)
                     IN  Sequenced(RMul(RDiv(vn, dn), Q(-1)), hit)
        IN  [heap |-> v.heap,
             out |-> decide(Vec3_dot(v.heap, v.ref, self.normal),
                            Vec3_dot(v.heap, ray.direction, self.normal))]
  IN  Sequenced(Vec3_subtract(h, ray.origin, self.center), test)

\* Scene.intersectionWithRay on references
RECURSIVE sceneLoop_onHeap(_, _, _, _, _, _)
sceneLoop_onHeap(h, objects, ray, k, nearestDistance, nearestIntersection) ==
  IF k > Len(objects) THEN [heap |-> h, out |-> nearestIntersection]
  ELSE LET body(i) ==
             IF ~i.out.isHit
               THEN sceneLoop_onHeap(i.heap, objects, ray, k + 1,
                                     nearestDistance, nearestIntersection)
             ELSE IF RLt(i.out.distance, nearestDistance)
               THEN sceneLoop_onHeap(i.heap, objects, ray, k + 1, i.out.distance, i.out)
             ELSE sceneLoop_onHeap(i.heap, objects, ray, k + 1,
                                   nearestDistance, nearestIntersection)
       IN  Sequenced(Plane_intersectionWithRay_onHeap(h, objects[k], ray), body)

Scene_intersectionWithRay_onHeap(h, objects, ray) ==
  sceneLoop_onHeap(h, objects, ray, 1, MAX_VALUE, Undefined)

\* Ray.randomReflectionFromNormal on references
randomReflectionFromNormal_onHeap(h, normal, rnd) ==
  LET flip(d) ==
        IF RLt(Vec3_dot(d.heap, normal, d.ref), Q(0))
          THEN Vec3_scale(d.heap, d.ref, Q(-1))
          ELSE d
  IN  Sequenced(Vec3_new(h, randomDirection(rnd)), flip)

\* Ray.tracePathInScene on references; rnds[depth + 1] stands for the random
\* draws of the call at that depth
RECURSIVE tracePathInScene_onHeap(_, _, _, _, _)
tracePathInScene_onHeap(h, objects, ray, depth, rnds) ==
  IF depth = 5 THEN Vec3_new(h, Vec3(Q(0), Q(0), Q(0)))
  ELSE
    LET afterQuery(q) ==
          IF IsUndefined(q.out) THEN Vec3_new(q.heap, Vec3(Q(0), Q(0), Q(0)))
          ELSE
            LET withStep(s) ==
                  LET withOrigin(o) ==
                        LET withDirection(d) ==
                              LET withDiffuse(diffuse) ==
                                    LET withReflection(reflection) ==
                                          LET withProduct(m) ==
                                                Vec3_add(m.heap, q.out.material.emission, m.ref)
                                          IN  Sequenced(Vec3_multiply(reflection.heap,
                                                                        diffuse.ref,
                                                                        reflection.ref), withProduct)
                                    IN  Sequenced(
                                          tracePathInScene_onHeap(diffuse.heap, objects,
                                                                  Ray(o.ref, d.ref),
                                                                  depth + 1, rnds), withReflection)
                              IN  Sequenced(
                                    Vec3_scale(d.heap, q.out.material.color,
                                               RMul(Vec3_dot(d.heap, d.ref, q.out.normal),
                                                    Q(2))), withDiffuse)
                        IN  Sequenced(
                              randomReflectionFromNormal_onHeap(o.heap, q.out.normal,
                                                                rnds[depth + 1]), withDirection)
                  IN  Sequenced(Vec3_add(s.heap, ray.origin, s.ref), withOrigin)
            IN  Sequenced(Vec3_scale(q.heap, ray.direction, q.out.distance), withStep)
    IN  Sequenced(Scene_intersectionWithRay_onHeap(h, objects, ray), afterQuery)

\* Camera.raysForCoordinate on references: the two loops, j counting the
\* pairs (ox, oy) in the order in which they are visited
RECURSIVE raysLoop_onHeap(_, _, _, _, _, _)
raysLoop_onHeap(h, self, cell2center, os, j, rays) ==
  IF j > Len(os) * Len(os) THEN [heap |-> h, out |-> rays]
  ELSE
    LET withVector(v) ==
          LET withOffset(offset) ==
                LET withSplitted(splitted) ==
                      LET withProduct(m) ==
                            LET withDirection(direction) ==
                                  raysLoop_onHeap(direction.heap, self, cell2center, os, j + 1,
                                                  Append(rays, Ray(self.position, direction.ref)))
                            IN  Sequenced(Vec3_normalize(m.heap, m.ref), withDirection)
                      IN  Sequenced(Vec3_multiply(splitted.heap, self.direction, splitted.ref), withProduct)
                IN  Sequenced(Vec3_add(offset.heap, cell2center, offset.ref), withSplitted)
          IN  Sequenced(Vec3_scale(v.heap, v.ref, RDiv(Q(1), self.filmDPM)), withOffset)
    IN  Sequenced(Vec3_new(h, Vec3(os[((j - 1) \div Len(os)) + 1],
                                    os[((j - 1) % Len(os)) + 1], Q(0))), withVector)

raysForCoordinate_onHeap(h, self, x, y) ==
  LET withCenter(c) ==
        raysLoop_onHeap(c.heap, self, c.ref,
                        offsetsFrom(RDiv(Q(self.multiSample), Q(-2)),
                                    RDiv(Q(self.multiSample), Q(2))),
                        1, <<>>)
  IN  Sequenced(Vec3_new(h, Vec3(RDiv(x, self.filmDPM), RDiv(y, self.filmDPM),
                                  self.focalLength)), withCenter)

\* Renderer.update: rays.map(ray => Vec3.scale(ray.tracePathInScene(this.scene),
\* this.camera.filmSpeed)); rnds[j] stands for the random draws of ray j
RECURSIVE mapLoop_onHeap(_, _, _, _, _, _, _)
mapLoop_onHeap(h, self, objects, rays, j, rnds, colors) ==
  IF j > Len(rays) THEN [heap |-> h, out |-> colors]
  ELSE
    LET withRadiance(r) ==
          LET withColor(c) ==
                mapLoop_onHeap(c.heap, self, objects, rays, j + 1, rnds,
                               Append(colors, c.ref))
          IN  Sequenced(Vec3_scale(r.heap, r.ref, self.filmSpeed), withColor)
    IN  Sequenced(tracePathInScene_onHeap(h, objects, rays[j], 0, rnds[j]), withRadiance)

\* Renderer.update: .reduce(callback) without an initial value; i is the
\* callback's index argument and prev the accumulator
RECURSIVE reduceLoop_onHeap(_, _, _, _)
reduceLoop_onHeap(h, colors, i, prev) ==
  IF i + 1 > Len(colors) THEN [heap |-> h, ref |-> prev]
  ELSE
    LET withNext(a) ==
          LET withPrev(b) ==
                LET withSum(c) == reduceLoop_onHeap(c.heap, colors, i + 1, c.ref)
                IN  Sequenced(Vec3_add(b.heap, a.ref, b.ref), withSum)
          IN  Sequenced(Vec3_scale(a.heap, prev, RSub(Q(1), RDiv(Q(1), Q(i + 1)))), withPrev)
    IN  Sequenced(Vec3_scale(h, colors[i + 1], RDiv(Q(1), Q(i + 1))), withNext)

\* Renderer.update: the body of the inner loop up to data.push(color)
pixelColor_onHeap(h, self, objects, x, y, rnds) ==
  LET withRays(rays) ==
        LET withColors(colors) == reduceLoop_onHeap(colors.heap, colors.out, 1, colors.out[1])
        IN  Sequenced(mapLoop_onHeap(rays.heap, self, objects, rays.out, 1, rnds, <<>>), withColors)
  IN  Sequenced(raysForCoordinate_onHeap(h, self, x, y), withRays)

\* Renderer.update: the body of the merge loop; the result is the object
\* that is assigned to this.data[i]
mergePixel_onHeap(h, old, new, count) ==
  LET withNew(a) ==
        LET withOld(b) == Vec3_add(b.heap, a.ref, b.ref)
        IN  Sequenced(Vec3_scale(a.heap, old, RSub(Q(1), RDiv(Q(1), Q(count)))), withOld)
  IN  Sequenced(Vec3_scale(h, new, RDiv(Q(1), Q(count))), withNew)

\* Renderer.draw: the loop over the pixels; out holds the gamma-corrected
\* colors in the order in which they are written to imageData
RECURSIVE drawLoop_onHeap(_, _, _, _)
drawLoop_onHeap(h, buffer, i, written) ==
  IF i >= Len(buffer) THEN [heap |-> h, out |-> written]
  ELSE
    LET withCorrected(c) ==
          drawLoop_onHeap(c.heap, buffer, i + 1, Append(written, c.heap[c.ref]))
    IN  Sequenced(Vec3_pow(h, buffer[i + 1], R(5, 11)), withCorrected)

\* the order in which the two for loops of update visit the coordinates
RECURSIVE loopCoordinates(_, _, _)
loopCoordinates(cv, x, y) ==
  IF ~rowLoopTest(cv, y) THEN <<>>
  ELSE IF ~columnLoopTest(cv, x) THEN loopCoordinates(cv, minX(cv), RSub(y, Q(1)))
  ELSE << <<x, y>> >> \o loopCoordinates(cv, RAdd(x, Q(1)), y)

(***************************************************************************)
(* The objects that the script of part_000 constructs before the renderer, *)
(* in the order of their `new Vec3`: the camera's position and direction,  *)
(* color and emission of the four materials, center and normal of the six  *)
(* planes.  The camera is given in pixel units (filmDPM 1, focal length 1) *)
(* so that the rays' directions are representable, and the top plane       *)
(* carries the light, as lightPlane does.  Fields of the shapes, materials *)
(* and camera are assigned in constructors only, so these records are      *)
(* fixed; what an operation could modify are the vectors they refer to.    *)
(***************************************************************************)
ConstructedVectors ==
  << V(0, 2, -5), V(1, 1, 1),
     V(0, 0, 0), V(10, 10, 10),
     V(1, 1, 1), V(0, 0, 0),
     V(0, 0, 1), V(0, 0, 0),
     V(1, 1, 0), V(0, 0, 0),
     V(2, 0, 0), V(-1, 0, 0),
     V(-2, 0, 0), V(1, 0, 0),
     V(0, 4, 0), V(0, -1, 0),
     V(0, 0, 0), V(0, 1, 0),
     V(0, 0, 2), V(0, 0, -1),
     V(0, 0, -2), V(0, 0, 1) >>

\* the camera with references to its two vectors
cameraOnHeap(multiSample) == Camera(1, 2, Q(1), Q(1), R(3, 2), multiSample)

\* the six planes (left, right, top, bottom, back, front) with references to
\* their vectors and to those of their materials
sceneOnHeap ==
  <<Plane(11, 12, Material(7, 8)), Plane(13, 14, Material(9, 10)),
    Plane(15, 16, Material(3, 4)), Plane(17, 18, Material(5, 6)),
    Plane(19, 20, Material(5, 6)), Plane(21, 22, Material(5, 6))>>

\* new Renderer(...): the one Vec3.zero() that fill() stores in every slot
zeroInstance == Len(ConstructedVectors) + 1

(***************************************************************************)
(* Bounded inputs of the renderer with object identity.                    *)
(***************************************************************************)
\* <<canvas.width, canvas.height, camera.multiSample>>
HeapConfigs == {<<1, 2, 1>>, <<2, 1, 1>>, <<1, 1, 2>>}

\* the random draws of one path, one per depth
HeapPaths ==
  { [d \in 1..5 |-> [u1 |-> R(3, 5), cosPhi |-> Q(-1), sinPhi |-> Q(0)]],
    [d \in 1..5 |-> [u1 |-> R(3, 5), cosPhi |-> Q(1), sinPhi |-> Q(0)]] }

\* timers that the DOMContentLoaded handler queues in this model
HeapTimers == 2

\* draw() runs at most this many times
MaxHeapDraws == 2

HeapInit ==
  /\ \E cfg \in HeapConfigs :
       /\ h_canvas = [width |-> cfg[1], height |-> cfg[2], multiSample |-> cfg[3]]
       /\ h_data = [i \in 1..(cfg[1] * cfg[2]) |-> zeroInstance]
  /\ h_heap = Append(ConstructedVectors, Vec3(Q(0), Q(0), Q(0)))
  /\ h_sampleCount = 0
  /\ h_pc = "idle"
  /\ h_frame = <<>>
  /\ h_i = 0
  /\ h_loaded = FALSE
  /\ h_timers = 0
  /\ h_shown = Undefined
  /\ GeomOff /\ TraceOff /\ RenderOff /\ MainOff /\ FirstOff

\* draw(): renderer.draw() and the text; at the end of the script and in
\* every animation frame, when no other callback is running
HeapDraw ==
  /\ h_pc = "idle"
  /\ IF IsUndefined(h_shown) THEN TRUE ELSE h_shown.draws < MaxHeapDraws
  /\ \E d \in {drawLoop_onHeap(h_heap, h_data, 0, <<>>)} :
       /\ h_heap' = d.heap
       /\ h_shown' = [count |-> h_sampleCount,
                      draws |-> IF IsUndefined(h_shown) THEN 1 ELSE h_shown.draws + 1,
                      written |-> d.out]
  /\ UNCHANGED <<h_canvas, h_data, h_sampleCount, h_pc, h_frame, h_i, h_loaded, h_timers>>
  /\ UNCHANGED <<gvars, tvars, rvars, mvars, fvars>>

\* the DOMContentLoaded handler
HeapLoaded ==
  /\ ~IsUndefined(h_shown)
  /\ ~h_loaded
  /\ h_pc = "idle"
  /\ h_loaded' = TRUE
  /\ h_timers' = HeapTimers
  /\ UNCHANGED <<h_canvas, h_heap, h_data, h_sampleCount, h_pc, h_frame, h_i, h_shown>>
  /\ UNCHANGED <<gvars, tvars, rvars, mvars, fvars>>

\* a timer callback starts renderer.update(): const data = []
HeapUpdateBegin ==
  /\ h_timers > 0
  /\ h_pc = "idle"
  /\ h_timers' = h_timers - 1
  /\ h_frame' = <<>>
  /\ h_i' = 0
  /\ h_pc' = "sample"
  /\ UNCHANGED <<h_canvas, h_heap, h_data, h_sampleCount, h_loaded, h_shown>>
  /\ UNCHANGED <<gvars, tvars, rvars, mvars, fvars>>

\* one pass of the inner loop body of update(); after the last coordinate
\* this.sampleCount += 1 and the merge loop starts at i = 0.  The first ray
\* of the pixel takes one path of random draws and its other rays another
HeapSamplePixel ==
  /\ h_pc = "sample"
  /\ LET coordinates == loopCoordinates(h_canvas, minX(h_canvas), maxY(h_canvas))
         at == coordinates[Len(h_frame) + 1]
         rayCount == h_canvas.multiSample * h_canvas.multiSample
     IN  /\ \E first \in HeapPaths, others \in HeapPaths :
              \E rnds \in {[j \in 1..rayCount |-> IF j = 1 THEN first ELSE others]} :
              \E c \in {pixelColor_onHeap(h_heap, cameraOnHeap(h_canvas.multiSample),
                                          sceneOnHeap, at[1], at[2], rnds)} :
                /\ h_heap' = c.heap
                /\ h_frame' = Append(h_frame, c.ref)
         /\ IF Len(h_frame) + 1 < Len(coordinates)
              THEN UNCHANGED <<h_pc, h_sampleCount>>
              ELSE h_pc' = "merge" /\ h_sampleCount' = h_sampleCount + 1
  /\ UNCHANGED <<h_canvas, h_data, h_i, h_loaded, h_timers, h_shown>>
  /\ UNCHANGED <<gvars, tvars, rvars, mvars, fvars>>

\* one pass of the merge loop
HeapMergePixel ==
  /\ h_pc = "merge"
  /\ mergeLoopTest(h_data, h_i)
  /\ \E m \in {mergePixel_onHeap(h_heap, h_data[h_i + 1], h_frame[h_i + 1], h_sampleCount)} :
       /\ h_heap' = m.heap
       /\ h_data' = [h_data EXCEPT ![h_i + 1] = m.ref]
  /\ h_i' = h_i + 1
  /\ UNCHANGED <<h_canvas, h_sampleCount, h_pc, h_frame, h_loaded, h_timers, h_shown>>
  /\ UNCHANGED <<gvars, tvars, rvars, mvars, fvars>>

\* the merge loop ends and update() returns; its locals are gone
HeapUpdateReturn ==
  /\ h_pc = "merge"
  /\ ~mergeLoopTest(h_data, h_i)
  /\ h_pc' = "idle"
  /\ h_frame' = <<>>
  /\ h_i' = 0
  /\ UNCHANGED <<h_canvas, h_heap, h_data, h_sampleCount, h_loaded, h_timers, h_shown>>
  /\ UNCHANGED <<gvars, tvars, rvars, mvars, fvars>>

NextHeap ==
  \/ HeapDraw \/ HeapLoaded
  \/ HeapUpdateBegin \/ HeapSamplePixel \/ HeapMergePixel \/ HeapUpdateReturn

SpecHeap == HeapInit /\ [][NextHeap]_vars

(***************************************************************************)
(* The first program of src/main.js: a chain of animation frames.  f_raf   *)
(* is the callback that requestAnimationFrame holds (Undefined: none),     *)
(* f_shown the sample that draw() last put on the canvas, f_text the count *)
(* in the text and f_log the calls update() has made, in order.            *)
(***************************************************************************)
\* the samples sample(width, height) can return: one traced color per pixel
first_sample(cv) ==
  { [data |-> d, width |-> cv.width, height |-> cv.height] :
      d \in [1..(cv.width * cv.height) -> Radiances] }

FirstCanvases == {[width |-> 1, height |-> 1], [width |-> 2, height |-> 1]}

\* update returns at once when count > 1000; the model's chain has this many
\* frames instead of 1000
ChainLimit == 3

\* variant of the test that already stops at the last count
chainContinues_stopsEarly(count) == ~(count >= ChainLimit)

\* if (count > 1000) { return; }
chainContinues(count) == ~(count > ChainLimit)

\* update(previousSample, count)
update(previousSample, count) ==
  IF ~chainContinues(count)
    THEN /\ f_raf' = Undefined
         /\ UNCHANGED <<f_text, f_shown, f_log>>
    ELSE \E NEW_SAMPLE \in first_sample(previousSample) :
           \E BUFFER \in
               { [data |-> [i \in 1..Len(previousSample.data) |->
                              add(scale(previousSample.data[i],
                                        RSub(Q(1), RDiv(Q(1), Q(count)))),
                                  scale(NEW_SAMPLE.data[i], RDiv(Q(1), Q(count))))],
                  width |-> previousSample.width,
                  height |-> previousSample.height] } :
             /\ f_shown' = BUFFER
             /\ f_text' = count
             /\ f_raf' = [sample |-> BUFFER, count |-> count + 1]
             /\ f_log' = f_log \o << <<"merge", count>>, <<"draw", count>>,
                                     <<"request", count + 1>> >>

\* the script has run and DOMContentLoaded has not fired
FirstInit ==
  /\ f_canvas \in FirstCanvases
  /\ f_loaded = FALSE
  /\ f_raf = Undefined
  /\ f_text = Undefined
  /\ f_shown = Undefined
  /\ f_log = <<>>
  /\ GeomOff /\ TraceOff /\ RenderOff /\ MainOff /\ HeapOff

\* the DOMContentLoaded handler
FirstLoaded ==
  /\ ~IsUndefined(f_canvas)
  /\ ~f_loaded
  /\ f_loaded' = TRUE
  /\ f_raf' = [first |-> TRUE]
  /\ UNCHANGED <<f_canvas, f_text, f_shown, f_log>>
  /\ UNCHANGED <<gvars, tvars, rvars, mvars, hvars>>

\* the frame callback of the handler: update(sample(canvas.width, canvas.height))
FirstKickoff ==
  /\ f_raf = [first |-> TRUE]
  /\ \E previousSample \in first_sample(f_canvas) : update(previousSample, 1)
  /\ UNCHANGED <<f_canvas, f_loaded>>
  /\ UNCHANGED <<gvars, tvars, rvars, mvars, hvars>>

\* the frame callback of update: update(BUFFER, count + 1)
FirstChained ==
  /\ ~IsUndefined(f_raf)
  /\ f_raf # [first |-> TRUE]
  /\ update(f_raf.sample, f_raf.count)
  /\ UNCHANGED <<f_canvas, f_loaded>>
  /\ UNCHANGED <<gvars, tvars, rvars, mvars, hvars>>

(***************************************************************************)
(* The two progressive programs with their scheduling: a queued timer or   *)
(* frame callback eventually runs, and a callback that has started runs to *)
(* its end.                                                                *)
(***************************************************************************)
ProgressInit == RenderInit \/ FirstInit

NextProgress ==
  \/ (up_pc # "off" /\ NextRender)
  \/ FirstLoaded \/ FirstKickoff \/ FirstChained

\* a callback is queued or running that changes the state: the condition
\* under which some step of NextProgress is possible (the disjunction of the
\* actions' guards; a draw of part_000 that shows what is already shown
\* changes nothing)
CanRun ==
  \/ /\ up_pc = "idle"
     /\ \/ ~started
        \/ ~loaded
        \/ timers > 0
        \/ rafQueued /\ debugText # [count |-> sampleCount, pixelsRead |-> Pixels,
                                      allDefined |-> Pixels <= Len(data)]
  \/ up_pc \in {"sample", "count", "merge"}
  \/ /\ ~IsUndefined(f_canvas)
     /\ ~f_loaded \/ ~IsUndefined(f_raf)

\* weak fairness of NextProgress, with CanRun for ENABLED <<NextProgress>>_vars
SpecProgress ==
  /\ ProgressInit
  /\ [][NextProgress]_vars
  /\ ([]<>(~CanRun) \/ []<><<NextProgress>>_vars)

(***************************************************************************)
(* Claims about the geometry operators (checked under SpecGeom).           *)
(***************************************************************************)
NonNegative(a) == RLe(Q(0), a.x) /\ RLe(Q(0), a.y) /\ RLe(Q(0), a.z)

\* the shapes of a scene that report a hit for a ray
HitIndexes(objects, ray) ==
  { k \in 1..Len(objects) : intersectionWithRay(objects[k], ray).isHit }

\* C5: the nearest-hit query returns undefined exactly when no shape of the
\* scene reports a hit; otherwise it returns the intersection of one of the
\* hit shapes, with isHit true and a distance that is the minimum over all
\* shapes that report a hit; for two shapes hit at different distances it
\* returns the strictly nearer one in either order of the list.
C5_NearestHit ==
  geom.op = "scene" =>
    LET hits == HitIndexes(geom.objects, geom.ray)
        I(k) == intersectionWithRay(geom.objects[k], geom.ray)
    IN  /\ IsUndefined(geom.out) <=> hits = {}
        /\ hits # {} =>
             /\ geom.out.isHit
             /\ \E k \in hits : geom.out = I(k)
             /\ \A k \in hits : RLe(geom.out.distance, I(k).distance)
        /\ (Len(geom.objects) = 2 /\ hits = {1, 2} /\ I(1).distance # I(2).distance) =>
             /\ geom.out = (IF RLt(I(1).distance, I(2).distance) THEN I(1) ELSE I(2))
             /\ Scene_intersectionWithRay(<<geom.objects[2], geom.objects[1]>>, geom.ray)
                  = geom.out

\* witness of C5: two shapes are hit at different distances and the nearer
\* one comes second in the list
C5_Witness ==
  /\ geom.op = "scene"
  /\ Len(geom.objects) = 2
  /\ HitIndexes(geom.objects, geom.ray) = {1, 2}
  /\ RLt(intersectionWithRay(geom.objects[2], geom.ray).distance,
         intersectionWithRay(geom.objects[1], geom.ray).distance)
  /\ geom.out = intersectionWithRay(geom.objects[2], geom.ray)

\* C8: a plane reports a hit if and only if the ray travels against the
\* normal (dot(direction, normal) < 0) from an origin strictly on the side
\* the normal points toward (dot(origin - center, normal) > 0); the distance
\* t is then positive and satisfies t * dot(direction, normal) =
\* -dot(origin - center, normal), and the intersection carries the plane's
\* own normal and material.
C8_PlaneHit ==
  geom.op = "plane" =>
    LET vn == dot(subtract(geom.ray.origin, geom.self.center), geom.self.normal)
        dn == dot(geom.ray.direction, geom.self.normal)
    IN  /\ geom.out.isHit <=> (RLt(dn, Q(0)) /\ RLt(Q(0), vn))
        /\ geom.out.isHit =>
             /\ RLt(Q(0), geom.out.distance)
             /\ RMul(geom.out.distance, dn) = RNeg(vn)
             /\ geom.out.normal = geom.self.normal
             /\ geom.out.material = geom.self.material

\* witness of C8: the ray from (0,5,0) straight down hits the floor plane
\* through the origin at distance 5
C8_Witness ==
  /\ geom.op = "plane"
  /\ geom.self = bottomPlane
  /\ geom.ray = Ray(V(0, 5, 0), V(0, -1, 0))
  /\ geom.out.isHit
  /\ geom.out.distance = Q(5)
  /\ geom.out.normal = V(0, 1, 0)

\* the coefficients of t^2 + 2 b t + c = 0 for a sphere and a unit-direction ray
SphereB(self, ray) == dot(subtract(ray.origin, self.center), ray.direction)

SphereC(self, ray) ==
  RSub(squaredLength(subtract(ray.origin, self.center)), RMul(self.radius, self.radius))

SphereD(self, ray) == RSub(RMul(SphereB(self, ray), SphereB(self, ray)), SphereC(self, ray))

\* the discriminant is negative or has an exact rational root
ExactSphereCase(self, ray) ==
  RLt(SphereD(self, ray), Q(0)) \/ IsSquare(SphereD(self, ray))

\* C9: for a unit-direction ray whose quadratic t^2 + 2bt + c = 0 has exact
\* roots, a sphere reports a hit if and only if the quadratic has a strictly
\* positive real root, and the reported distance is the smallest strictly
\* positive root (a root, positive, and the other root is not a smaller
\* positive one).
C9_SphereHit ==
  (geom.op = "sphere" /\ ExactSphereCase(geom.self, geom.ray)) =>
    LET b == SphereB(geom.self, geom.ray)
        c == SphereC(geom.self, geom.ray)
        d == SphereD(geom.self, geom.ray)
        positiveRoot == RLe(Q(0), d) /\ (RLt(c, Q(0)) \/ RLt(b, Q(0)))
    IN  /\ geom.out.isHit <=> positiveRoot
        /\ geom.out.isHit =>
             LET t     == geom.out.distance
                 other == RSub(RMul(Q(-2), b), t)
             IN  /\ RLt(Q(0), t)
                 /\ RAdd(RAdd(RMul(t, t), RMul(RMul(Q(2), b), t)), c) = Q(0)
                 /\ RLe(other, Q(0)) \/ RLe(t, other)

\* witness of C9: from inside the unit sphere the exit root is returned
C9_Witness ==
  /\ geom.op = "sphere"
  /\ geom.self = unitSphere
  /\ geom.ray = Ray(V(0, 0, 0), V(0, 0, 1))
  /\ geom.out.isHit
  /\ geom.out.distance = Q(1)

\* C10: the reflection direction is the sampled candidate c or its negation,
\* it is -c exactly when dot(normal, c) < 0, its dot product with the normal
\* is never negative, and so cosTheta and the diffuse weight
\* color * (2 * cosTheta) of a non-negative color are never negative.
C10_Hemisphere ==
  geom.op = "reflection" =>
    LET c == randomDirection(geom.rnd)
    IN  /\ geom.out = (IF RLt(dot(geom.normal, c), Q(0)) THEN scale(c, Q(-1)) ELSE c)
        /\ geom.out \in {c, scale(c, Q(-1))}
        /\ RLe(Q(0), dot(geom.normal, geom.out))
        /\ RLe(Q(0), geom.cosTheta)
        /\ NonNegative(geom.material.color) => NonNegative(geom.diffuse)

\* witness of C10: a candidate in the wrong hemisphere was negated
C10_Witness ==
  /\ geom.op = "reflection"
  /\ RLt(dot(geom.normal, randomDirection(geom.rnd)), Q(0))
  /\ geom.out = scale(randomDirection(geom.rnd), Q(-1))
  /\ RLt(Q(0), geom.cosTheta)

RAbs(a) == <<Abs(a[1]), a[2]>>

\* the distance between two image-plane positions that are one pixel apart
PixelPitch(self) == RDiv(Q(1), self.filmDPM)

\* the rays of one pixel start at the camera and pass through k * k different
\* points of the image plane
RaysAreGrid ==
  geom.op = "rays" =>
    /\ Len(geom.out) = geom.self.multiSample * geom.self.multiSample
    /\ \A j \in 1..Len(geom.out) : geom.out[j].origin = geom.self.position
    /\ \A i, j \in 1..Len(geom.out) :
         i # j => geom.out[i].splitted # geom.out[j].splitted

\* every sample is displaced from the pixel's own position by less than one
\* pixel pitch in each axis
RaysInFootprint ==
  geom.op = "rays" =>
    \A j \in 1..Len(geom.out) :
      /\ RLt(RAbs(RSub(geom.out[j].splitted.x, RDiv(geom.x, geom.self.filmDPM))),
             PixelPitch(geom.self))
      /\ RLt(RAbs(RSub(geom.out[j].splitted.y, RDiv(geom.y, geom.self.filmDPM))),
             PixelPitch(geom.self))

\* the samples of two different pixels are different points
RaysOfPixelsDisjoint ==
  (geom.op = "rays" /\ <<geom.x, geom.y>> # <<geom.x2, geom.y2>>) =>
    \A j \in 1..Len(geom.out), j2 \in 1..Len(geom.out2) :
      geom.out[j].splitted # geom.out2[j2].splitted

\* C11: raysForCoordinate(x, y) emits exactly k * k rays from the camera
\* position, one per point of a k-by-k grid; every point is displaced from the
\* pixel's own image-plane position by less than one pixel pitch in each
\* axis, and the sample positions of two different pixels never coincide.
C11_SubOffsets == RaysAreGrid /\ RaysInFootprint /\ RaysOfPixelsDisjoint

(***************************************************************************)
(* Claims about the path integrator (checked under SpecTrace).             *)
(***************************************************************************)
TraceReturned == tr_pc \in {"return", "done"}

\* C3: a call with depth 5 returns the zero vector without querying the scene,
\* a call whose ray hits no shape returns the zero vector, and against the
\* empty scene the whole trace returns zero for every ray and start depth.
C3_ZeroRadiance ==
  /\ (TraceReturned /\ tr_leaf.depth = 5) =>
       /\ tr_leaf.kind = "cap" /\ tr_leaf.value = V(0, 0, 0) /\ ~tr_leaf.queried
  /\ (TraceReturned /\ tr_leaf.depth # 5 /\ HitIndexes(tr_objects, tr_leaf.ray) = {}) =>
       tr_leaf.value = V(0, 0, 0)
  /\ (tr_pc = "done" /\ tr_depth0 = 5) => (tr_result = V(0, 0, 0) /\ tr_queries = 0)
  /\ (tr_pc = "done" /\ HitIndexes(tr_objects, tr_ray0) = {} /\ tr_depth0 # 5) =>
       (tr_result = V(0, 0, 0) /\ tr_queries = 1 /\ tr_samples = 0)
  /\ (tr_pc = "done" /\ tr_objects = <<>>) => tr_result = V(0, 0, 0)

\* witness of C3: a trace started at depth 5 with a ray that would hit the
\* light of a closed scene returned zero without a query
C3_Witness ==
  /\ tr_pc = "done"
  /\ tr_depth0 = 5
  /\ tr_objects = litBoxScene
  /\ tr_ray0 = Ray(V(0, 2, 0), V(0, 1, 0))
  /\ HitIndexes(tr_objects, tr_ray0) # {}
  /\ tr_result = V(0, 0, 0)
  /\ tr_queries = 0

\* C4 (safety part): in a trace started with depth 0 the depth arguments of
\* the nested calls are 0, 1, 2, ... and never exceed 5, at most 5 nearest-hit
\* queries and 5 direction samples are made, and the recursion has ended only
\* at depth 5 or at a ray that hits no shape.
C4_Bounded ==
  (tr_pc # "idle" /\ tr_depth0 = 0) =>
    /\ tr_depth <= 5
    /\ \A j \in 1..Len(tr_depths) : tr_depths[j] = j - 1
    /\ tr_queries <= 5
    /\ tr_samples <= 5
    /\ tr_samples = Len(tr_hits)
    /\ TraceReturned =>
         \/ tr_leaf.kind = "cap" /\ tr_leaf.depth = 5 /\ tr_samples = 5 /\ tr_queries = 5
         \/ /\ tr_leaf.kind = "miss"
            /\ HitIndexes(tr_objects, tr_leaf.ray) = {}
            /\ tr_queries = tr_samples + 1

\* a natural number that every step of a trace started with depth 0 decreases:
\* twice the calls that may still be made, plus the callers that wait for a
\* result, plus the steps left in the current call
TraceMeasure ==
  2 * (6 - Len(tr_depths)) + Len(tr_stack)
    + (IF tr_pc = "call" THEN 2 ELSE IF tr_pc = "return" THEN 1 ELSE 0)

\* the guards of the steps of a trace: a pending return can always be made;
\* a call returns at once or bounces, and the model follows a bounce below
\* MaxTraceDepth
TraceCanStep ==
  \/ tr_pc = "return"
  \/ tr_pc = "call" /\ (tr_depth = 5 \/ tr_depth < MaxTraceDepth)

\* C4: every trace started with depth 0 terminates: it stays within the
\* bounds above, it can always take a step until the outermost call has
\* returned, and every step decreases a natural number.
C4_Terminates ==
  /\ [](C4_Bounded)
  /\ []((tr_pc \in {"call", "return"} /\ tr_depth0 = 0) =>
          (TraceMeasure >= 1 /\ TraceCanStep))
  /\ [][(tr_pc # "idle" /\ tr_depth0 = 0) => TraceMeasure' < TraceMeasure]_vars

\* witness of C4: in a closed scene a path returned at the bounce cap after 5
\* bounces, one of which was on the emissive ceiling
C4_Witness ==
  /\ tr_pc = "done"
  /\ tr_depth0 = 0
  /\ tr_objects = litBoxScene
  /\ tr_leaf.kind = "cap"
  /\ tr_depths = <<0, 1, 2, 3, 4, 5>>
  /\ tr_queries = 5
  /\ \E j \in 1..4 : tr_hits[j].material = lightMaterial

\* the call number c (1 is the outermost) has returned, and what it returned
HasReturned(c) == Len(tr_rays) - c + 1 \in 1..Len(tr_values)

ReturnedValue(c) == tr_values[Len(tr_rays) - c + 1]

\* a call at depth < 5 that records a hit has taken the nearest of the
\* intersections that the shapes of the scene report for its ray
HitIsNearest ==
  (Len(tr_hits') = Len(tr_hits) + 1 /\ tr_depth < 5) =>
    \A h \in {tr_hits'[Len(tr_hits')]} :
      /\ h.isHit
      /\ \E k \in 1..Len(tr_objects) : h = intersectionWithRay(tr_objects[k], tr_ray)
      /\ \A j \in 1..Len(tr_objects) :
           \A i \in {intersectionWithRay(tr_objects[j], tr_ray)} :
             i.isHit => RLe(h.distance, i.distance)

\* what a call at depth < 5 that hit a shape passes on and returns
HitReturns ==
  \A c \in 1..Len(tr_hits) :
    tr_depths[c] < 5 =>
      /\ tr_depths[c + 1] = tr_depths[c] + 1
      /\ tr_rays[c + 1].origin =
           add(tr_rays[c].origin, scale(tr_rays[c].direction, tr_hits[c].distance))
      /\ HasReturned(c) =>
           /\ ReturnedValue(c) =
                add(tr_hits[c].material.emission,
                    multiply(scale(tr_hits[c].material.color,
                                   RMul(Q(2), dot(tr_rays[c + 1].direction,
                                                  tr_hits[c].normal))),
                             ReturnedValue(c + 1)))
           /\ tr_hits[c].material.color = V(0, 0, 0) =>
                ReturnedValue(c) = tr_hits[c].material.emission
           /\ tr_depths[c] = 4 => ReturnedValue(c) = tr_hits[c].material.emission
           /\ (c = 1 /\ tr_pc = "done") => tr_result = ReturnedValue(1)

\* C13: a call at depth < 5 whose ray hits a shape returns
\* emission + color * (2 * cosTheta) * incoming componentwise, with the
\* material of the nearest hit, cosTheta the dot product of the bounce
\* direction and the hit normal, and incoming the value of the call at
\* depth + 1 on the bounce ray that starts at origin + direction * distance;
\* a surface of zero reflectance returns its emission, and so does a surface
\* hit at depth 4.
C13_HitRadiance == [](HitReturns) /\ [][HitIsNearest]_vars

\* a path from depth 0 met a white surface, then the light, and went on to
\* the bounce cap: the white surface returned reflected light, and the
\* surface hit at depth 4 returned its emission
C13_Witness ==
  /\ tr_pc = "done"
  /\ tr_depth0 = 0
  /\ Len(tr_hits) = 5
  /\ tr_hits[1].material = whiteMaterial
  /\ tr_hits[2].material = lightMaterial
  /\ tr_result # V(0, 0, 0)
  /\ ReturnedValue(5) = tr_hits[5].material.emission

(***************************************************************************)
(* Claims about the Renderer of part_000 (checked under SpecRender).       *)
(***************************************************************************)
\* every pixel of the buffer is the mean of the n frames summed in `sum`
MeanOfFrames(n) ==
  \A i \in 1..Pixels : scale(data[i], Q(n)) = sum[i]

\* no callback is running: the next callback may start
BetweenCallbacks == up_pc = "idle"

\* C1: after n >= 1 completed updates sampleCount = n and every pixel of data
\* is the arithmetic mean of the n frames of those updates (n * data[i] is
\* their sum); when all n updates produced the same frame F, data = F; before
\* the first update sampleCount = 0 and the buffer is all zero.
C1_RunningMean ==
  BetweenCallbacks =>
    /\ sampleCount = updates
    /\ updates = 0 => \A i \in 1..Pixels : data[i] = V(0, 0, 0)
    /\ updates >= 1 => MeanOfFrames(updates)
    /\ (updates >= 1 /\ "frame" \in DOMAIN sameAs) => data = sameAs.frame

\* witness of C1: two or more updates with different frames have completed
\* and the first pixel is neither black nor the last frame alone
C1_Witness ==
  /\ BetweenCallbacks
  /\ updates >= 2
  /\ "differ" \in DOMAIN sameAs
  /\ data[1] # V(0, 0, 0)
  /\ sum[1] # scale(data[1], Q(1))
  /\ MeanOfFrames(updates)

\* C6: callbacks run to completion, so a frame is merged only when all of its
\* pixels have been computed, the buffer is untouched while the frame is
\* computed, the merge writes each pixel exactly once in index order, and
\* whenever a draw callback can run every pixel is the mean of the same
\* sampleCount complete frames.
C6_ConsistentDraw ==
  /\ up_pc # "threw"
  /\ up_pc \in {"sample", "count"} =>
       /\ sampleCount = updates
       /\ MeanOfFrames(updates)
       /\ \A i \in 1..Pixels : up_writes[i] = 0
  /\ up_pc = "merge" =>
       /\ Len(up_data) = Pixels
       /\ sampleCount = updates + 1
       /\ \A i \in 1..Pixels : up_writes[i] = (IF i <= up_i THEN 1 ELSE 0)
       /\ \A i \in 1..Pixels :
            scale(data[i], Q(IF i <= up_i THEN sampleCount ELSE updates))
              = (IF i <= up_i THEN add(sum[i], up_data[i]) ELSE sum[i])
  /\ (rafQueued /\ BetweenCallbacks) =>
       /\ sampleCount = updates
       /\ MeanOfFrames(sampleCount)

\* witness of C6: a draw callback is queued while a merge has updated the
\* first pixel but not the last one
C6_Witness ==
  /\ rafQueued
  /\ up_pc = "merge"
  /\ updates >= 1
  /\ 0 < up_i /\ up_i < Pixels
  /\ up_data[1] # data[1]
  /\ scale(data[Pixels], Q(sampleCount)) # add(sum[Pixels], up_data[Pixels])

\* C7: the buffer always holds width * height colors; the frame of an update
\* holds one color per pixel, pushed in row-major order from the top row
\* (y = height / 2) and the left column (x = -width / 2), and is complete
\* when the merge starts, so that no read of the merge loop or of draw
\* misses, also for odd widths and heights.
C7_FrameSize ==
  /\ Len(data) = Pixels
  /\ up_pc # "threw"
  /\ Len(up_data) = Len(up_coords)
  /\ Len(up_data) <= Pixels
  /\ up_pc = "sample" => Len(up_data) < Pixels
  /\ up_pc \in {"count", "merge"} => Len(up_data) = Pixels
  /\ \A j \in 1..Len(up_coords) :
       up_coords[j] = << RAdd(minX(canvas), Q((j - 1) % canvas.width)),
                         RSub(maxY(canvas), Q((j - 1) \div canvas.width)) >>
  /\ "allDefined" \in DOMAIN debugText =>
       (debugText.allDefined /\ debugText.pixelsRead = Len(data))

\* witness of C7: on a canvas of height 3 a complete frame of 3 rows is being
\* merged, its last row at y = -1/2
C7_Witness ==
  /\ canvas = [width |-> 1, height |-> 3]
  /\ up_pc = "merge"
  /\ Len(up_data) = 3
  /\ up_coords[1] = <<R(-1, 2), R(3, 2)>>
  /\ up_coords[3] = <<R(-1, 2), R(-1, 2)>>
  /\ up_i = 3

\* the componentwise sum of a non-empty sequence of vectors
SumOf(vectors) ==
  LET partial[j \in 1..Len(vectors)] ==
        IF j = 1 THEN vectors[1] ELSE add(partial[j - 1], vectors[j])
  IN  partial[Len(vectors)]

\* the color pushed for a pixel is the mean of the radiances of its k * k
\* rays, each scaled by filmSpeed
PixelIsMeanOfRays ==
  /\ Len(up_radiances) = Len(up_data)
  /\ \A p \in 1..Len(up_data) :
       /\ Len(up_radiances[p]) = camera.multiSample * camera.multiSample
       /\ scale(up_data[p], Q(Len(up_radiances[p]))) =
            scale(SumOf(up_radiances[p]), camera.filmSpeed)

\* while the merge loop runs, a merged slot holds the mean of the completed
\* frames and of the pixel's color of this frame, counted as one sample
FrameIsOneSample ==
  up_pc = "merge" =>
    \A i \in 1..Len(data) :
      IF i <= up_i
        THEN scale(data[i], Q(sampleCount)) = add(sum[i], up_data[i])
        ELSE scale(data[i], Q(sampleCount - 1)) = sum[i]

\* C12: the color of a pixel for one frame is the equal-weight mean of the
\* radiances of all its k * k rays (each scaled by filmSpeed), the first ray
\* included, and it is merged into the buffer as one sample with weight
\* 1 / sampleCount, whatever k is.
C12_NestedMeans == PixelIsMeanOfRays /\ FrameIsOneSample

\* a pixel with four rays, of which only the first met the light, has been
\* merged as the second frame
C12_Witness ==
  /\ up_pc = "merge"
  /\ camera.multiSample = 2
  /\ sampleCount = 2
  /\ up_i = 1
  /\ up_radiances = << <<V(10, 10, 10), V(0, 0, 0), V(0, 0, 0), V(0, 0, 0)>> >>
  /\ sum[1] = V(0, 0, 0)
  /\ data[1] = Vec3(R(15, 8), R(15, 8), R(15, 8))

(***************************************************************************)
(* Claims about the Renderer of the second program of main.js (checked     *)
(* under SpecMain).                                                        *)
(***************************************************************************)
\* C2: after the constructor and k further updates, sampleCount = k + 1 and
\* every pixel is the mean of all k + 1 frames sampled so far, the
\* constructor's frame included.
C2_MeanOfAllFrames ==
  /\ m_sampleCount = m_frames
  /\ \A i \in 1..Len(m_data) : scale(m_data[i], Q(m_frames)) = m_sum[i]

(***************************************************************************)
(* Claims about object identity (checked under SpecHeap).                  *)
(***************************************************************************)
\* the objects that the renderer can still reach besides the scene's
RendererObjects ==
  {zeroInstance} \cup { h_data[i] : i \in DOMAIN h_data } \cup { h_frame[i] : i \in DOMAIN h_frame }

\* the result of an operation on the heap h is a new object and the objects
\* a and b have the values they had
KeepsOperands(h, result, a, b) ==
  /\ result.ref = Len(h) + 1
  /\ Len(result.heap) = Len(h) + 1
  /\ result.heap[a] = h[a]
  /\ result.heap[b] = h[b]

\* every Vec3 operation, applied to objects of the scene, the camera and the
\* renderer, returns a new object and leaves its operands as they were
Vec3OperationsPure ==
  \A a \in {1, 9} \cup RendererObjects, b \in {2} \cup RendererObjects :
    /\ KeepsOperands(h_heap, Vec3_add(h_heap, a, b), a, b)
    /\ KeepsOperands(h_heap, Vec3_subtract(h_heap, a, b), a, b)
    /\ KeepsOperands(h_heap, Vec3_multiply(h_heap, a, b), a, b)
    /\ KeepsOperands(h_heap, Vec3_scale(h_heap, a, R(1, 2)), a, b)
    /\ KeepsOperands(h_heap, Vec3_pow(h_heap, a, R(5, 11)), a, b)
    /\ length(h_heap[a]) # Q(0) =>
         KeepsOperands(h_heap, Vec3_normalize(h_heap, a), a, b)

\* the vectors of the camera, the materials and the shapes are as constructed
SceneKept == SubSeq(h_heap, 1, Len(ConstructedVectors)) = ConstructedVectors

\* the shared zero vector is zero, and a slot that no update has written
\* holds that very object
ZeroInstanceKept ==
  /\ h_heap[zeroInstance] = Vec3(Q(0), Q(0), Q(0))
  /\ \A i \in DOMAIN h_data :
       (h_sampleCount = 0 \/ (h_sampleCount = 1 /\ h_pc = "merge" /\ i > h_i))
         => h_data[i] = zeroInstance

\* a step (of update or draw) changes no object that exists
ObjectsKept ==
  /\ Len(h_heap') >= Len(h_heap)
  /\ \A a \in DOMAIN h_heap : h_heap'[a] = h_heap[a]

\* a step that writes the buffer replaces one slot by a new object; every
\* other slot holds the object it held, with the value it had
MergeWritesOneSlot ==
  h_data' # h_data =>
    /\ h_pc = "merge"
    /\ h_data'[h_i + 1] \notin DOMAIN h_heap
    /\ \A j \in DOMAIN h_data :
         j # h_i + 1 => /\ h_data'[j] = h_data[j]
                        /\ h_heap'[h_data'[j]] = h_heap[h_data[j]]

CountIsCallbacksRun ==
  up_pc # "off" =>
    /\ ~loaded => sampleCount = 0 /\ timers = 0
    /\ loaded => sampleCount + timers + (IF up_pc \in {"sample", "count"} THEN 1 ELSE 0)
                    = NumTimers
    /\ up_pc = "idle" => updates = sampleCount
    /\ sampleCount <= NumTimers
    /\ up_pc # "threw"
    /\ ~IsUndefined(debugText) => debugText.count <= sampleCount
    /\ started => rafQueued

\* part_000: the count and the reported count never decrease, and the count
\* grows by one, in the step of update() that increments it
CountGrowsByOne ==
  up_pc # "off" =>
    /\ sampleCount' \in {sampleCount, sampleCount + 1}
    /\ sampleCount' # sampleCount => up_pc = "count" /\ up_pc' = "merge"
    /\ (~IsUndefined(debugText)) =>
         (~IsUndefined(debugText')) /\ debugText'.count >= debugText.count

\* part_000: all callbacks have run, the count and the reported count are
\* NumTimers and a draw callback is queued
RefinementDone ==
  /\ up_pc = "idle"
  /\ timers = 0
  /\ sampleCount = NumTimers
  /\ rafQueued
  /\ debugText = [count |-> NumTimers, pixelsRead |-> Pixels, allDefined |-> TRUE]

\* first program: update has merged, drawn and requested the next frame for
\* the counts 1, 2, ... in this order, each once, and the pending callback is
\* the one requested last, holding the sample that was drawn
ChainInOrder ==
  ~IsUndefined(f_canvas) =>
    /\ Len(f_log) % 3 = 0
    /\ Len(f_log) <= 3 * ChainLimit
    /\ \A k \in 1..(Len(f_log) \div 3) :
         /\ f_log[3 * k - 2] = <<"merge", k>>
         /\ f_log[3 * k - 1] = <<"draw", k>>
         /\ f_log[3 * k] = <<"request", k + 1>>
    /\ f_log # <<>> =>
         /\ f_text = Len(f_log) \div 3
         /\ ~IsUndefined(f_raf) => f_raf = [sample |-> f_shown, count |-> f_text + 1]
         /\ IsUndefined(f_raf) => f_text = ChainLimit
    /\ f_log = <<>> =>
         /\ IsUndefined(f_text) /\ IsUndefined(f_shown)
         /\ f_raf = IF f_loaded THEN [first |-> TRUE] ELSE Undefined

\* first program: once the callback with count > limit has returned, nothing
\* is scheduled and nothing changes
ChainDone ==
  /\ f_loaded
  /\ IsUndefined(f_raf)
  /\ Len(f_log) = 3 * ChainLimit
  /\ f_text = ChainLimit

ChainStaysDone == ChainDone => UNCHANGED fvars

\* C15: in part_000 the sample count is 0 before the first update, never
\* decreases, grows by one per executed timer callback, never exceeds the
\* number of timers and, when queued callbacks eventually run, reaches that
\* number and stays there with a draw always queued; in the first program
\* update merges and draws once per count 1 .. limit in order, requests the
\* next frame after the draw, and the chain ends once count exceeds the limit
C15_Progress ==
  /\ [](CountIsCallbacksRun /\ ChainInOrder)
  /\ [][CountGrowsByOne /\ ChainStaysDone]_vars
  /\ <>[]((up_pc # "off" => RefinementDone) /\ (~IsUndefined(f_canvas) => ChainDone))

\* part_000 has run all its timer callbacks on a canvas of two pixels and
\* the last draw has reported the final count
C15_Witness ==
  /\ RefinementDone
  /\ loaded
  /\ updates = NumTimers
  /\ Len(data) = 2
  /\ data[1] # zero

====
